---- MODULE Spec2Model ----
(***************************************************************************)
(* Soft-body simulation of src/src/app/SoftBody.jsx (the multi-body        *)
(* component, lines 370-1020): three ring bodies whose particle state      *)
(* lives in ping-pong render targets of a GPUComputationRenderer, three    *)
(* fragment shaders (position, shape matching, bounding box), the frame    *)
(* callback that drives them and the pointer handlers of the drag          *)
(* controller.                                                             *)
(*                                                                         *)
(* Numbers.  GLSL/JS floats are modelled as fixed-point integers: a        *)
(* length, position, velocity, force or time x is the integer x*Q.  The    *)
(* control-panel coefficients are kept in tenths (their finest slider      *)
(* step).  Every product and quotient is rounded to the nearest grid       *)
(* value, half away from zero.                                             *)
(***************************************************************************)
EXTENDS Integers, Sequences, FiniteSets, TLC

\* ------------------------------------------------------------------------
\* Fixed-point arithmetic
\* ------------------------------------------------------------------------
Q == 10 * 10 * 10

Abs(x) == IF x < 0 THEN -x ELSE x

Sgn(x) == IF x < 0 THEN -1 ELSE IF x > 0 THEN 1 ELSE 0

Min2(a, b) == IF a < b THEN a ELSE b

Max2(a, b) == IF a > b THEN a ELSE b

\* a / b rounded to nearest, half away from zero (b # 0)
RDiv(a, b) == Sgn(a) * Sgn(b) * ((2 * Abs(a) + Abs(b)) \div (2 * Abs(b)))

\* round(x * y / Q) for x >= y >= 0, x split into hi * Q + lo so that no
\* intermediate exceeds the result by more than Q * y
MulSplit(x, y) == (x \div Q) * y + RDiv((x % Q) * y, Q)

\* product of two Q-scaled numbers: round(a * b / Q); the larger factor is
\* the one that is split
Mul(a, b) ==
  Sgn(a) * Sgn(b) * MulSplit(Max2(Abs(a), Abs(b)), Min2(Abs(a), Abs(b)))

\* quotient of two Q-scaled numbers: round(a * Q / b), b # 0, split likewise
Div(a, b) ==
  Sgn(a) * Sgn(b) * ((Abs(a) \div Abs(b)) * Q + RDiv((Abs(a) % Abs(b)) * Q, Abs(b)))

\* coefficient in tenths times a Q-scaled number
MulK(k10, x) == RDiv(k10 * x, 10)

RECURSIVE SqrtIter(_, _)
SqrtIter(n, x) ==
  LET y == (x + n \div x) \div 2
  IN IF y >= x THEN x ELSE SqrtIter(n, y)

\* floor of the square root of n >= 0
ISqrt(n) == IF n < 2 THEN n ELSE SqrtIter(n, n \div 2 + 1)

\* floor(a * Q / b) for 0 <= a < b, by long division (no wide product)
FracDiv(a, b) ==
  LET d1 == (a * 10) \div b
      r1 == (a * 10) % b
      d2 == (r1 * 10) \div b
      r2 == (r1 * 10) % b
      d3 == (r2 * 10) \div b
  IN d1 * 100 + d2 * 10 + d3

\* ------------------------------------------------------------------------
\* vec2 / vec4
\* ------------------------------------------------------------------------
Vec2(x, y) == <<x, y>>

Vec4(a, b) == <<a[1], a[2], b[1], b[2]>>

XY(p) == <<p[1], p[2]>>

ZW(p) == <<p[3], p[4]>>

VAdd(a, b) == <<a[1] + b[1], a[2] + b[2]>>

VSub(a, b) == <<a[1] - b[1], a[2] - b[2]>>

\* vector times Q-scaled scalar
VScale(a, s) == <<Mul(a[1], s), Mul(a[2], s)>>

\* unrounded dot product, in Q*Q units
DotRaw(a, b) == a[1] * b[1] + a[2] * b[2]

\* GLSL dot(), Q-scaled
Dot(a, b) == RDiv(DotRaw(a, b), Q)

\* GLSL length(), Q-scaled
Length(a) == ISqrt(DotRaw(a, a))

\* GLSL normalize() of a non-zero vector: the vector is first rescaled to
\* about 30000 grid units so that the integer square root keeps its digits
\* and the squares stay in range
Normalize(v) ==
  LET m == Max2(Abs(v[1]), Abs(v[2]))
      w == IF m > 30000
             THEN <<RDiv(v[1], m \div 30000 + 1), RDiv(v[2], m \div 30000 + 1)>>
             ELSE <<v[1] * (30000 \div m), v[2] * (30000 \div m)>>
      len == ISqrt(DotRaw(w, w))
  IN <<Div(w[1], len), Div(w[2], len)>>

\* GLSL exp(-x) for x = k10 * t / 10 >= 0 (k10 in tenths, t Q-scaled):
\* alternating Taylor series at scale 100*Q, twelve terms
RECURSIVE ExpTerms(_, _, _, _)
ExpTerms(x, k, term, acc) ==
  IF k > 12 \/ term = 0 THEN acc
  ELSE LET t == RDiv(term * x, k * Q)
       IN ExpTerms(x, k + 1, t, IF k % 2 = 1 THEN acc - t ELSE acc + t)

ExpNeg(k10, t) ==
  LET x == RDiv(k10 * t, 10)
  IN RDiv(ExpTerms(x, 1, 100 * Q, 100 * Q), 100)

\* ------------------------------------------------------------------------
\* Configuration constants and rest shape
\* ------------------------------------------------------------------------
BODY_COUNT == 3

BODIES ==
  [b \in 0..(BODY_COUNT - 1) |->
     CASE b = 0 -> [radius |-> 220, center |-> <<-400, 300>>]
       [] b = 1 -> [radius |-> 180, center |-> <<200, 100>>]
       [] b = 2 -> [radius |-> 250, center |-> <<-300, -200>>]]

Bodies == 0..(BODY_COUNT - 1)

\* Math.cos / Math.sin of (i / pointsPer) * 2 * PI, Q-scaled, for the ring
\* sizes of the model
CosTab(pointsPer) ==
  CASE pointsPer = 2 -> <<1000, -1000>>
    [] pointsPer = 3 -> <<1000, -500, -500>>
    [] pointsPer = 4 -> <<1000, 0, -1000, 0>>
    [] pointsPer = 5 -> <<1000, 309, -809, -809, 309>>
    [] pointsPer = 6 -> <<1000, 500, -500, -1000, -500, 500>>

SinTab(pointsPer) ==
  CASE pointsPer = 2 -> <<0, 0>>
    [] pointsPer = 3 -> <<0, 866, -866>>
    [] pointsPer = 4 -> <<0, 1000, 0, -1000>>
    [] pointsPer = 5 -> <<0, 951, 588, -588, -951>>
    [] pointsPer = 6 -> <<0, 866, 866, 0, -866, -866>>

generateRestPositions(radius, pointsPer) ==
  [i \in 0..(pointsPer - 1) |->
     <<Mul(radius, CosTab(pointsPer)[i + 1]), Mul(radius, SinTab(pointsPer)[i + 1])>>]

\* the control panel's initial values (coefficients in tenths, wallDistance
\* Q-scaled); numPoints is scaled down to the smallest ring of the model
PointsDefault == 4

DefaultCfg ==
  [kShape |-> 3000, pressureK |-> 800, kSpring |-> 400, damping |-> 20,
   wallK |-> 3000, wallDamp |-> 50, gravityY |-> -50,
   numPoints |-> PointsDefault, wallDistance |-> 900, pushStrength |-> 100,
   kDampSpring |-> 10]

\* ------------------------------------------------------------------------
\* Position shader
\* ------------------------------------------------------------------------
PI == 3142

restLen(radiusArr, body, I_N) == RDiv(Mul(2 * PI, radiusArr[body]), I_N)

areaRest(radiusArr, body) == Mul(Mul(PI, radiusArr[body]), radiusArr[body])

\* -wallK * p * n - wallDamp * dot(vel, n) * n for one wall with normal n
WallTerm(u, p, n, vel) ==
  LET vn == Dot(vel, n)
      s == -MulK(u.wallK, p) - MulK(u.wallDamp, vn)
  IN VScale(n, s)

\* variant: one chain of else-ifs, the y walls looked at only within the x bounds
wallForceOneAxis(u, pos, vel) ==
  IF pos[1] > u.wallDistance
    THEN WallTerm(u, pos[1] - u.wallDistance, <<Q, 0>>, vel)
  ELSE IF pos[1] < -u.wallDistance
    THEN WallTerm(u, -u.wallDistance - pos[1], <<-Q, 0>>, vel)
  ELSE IF pos[2] > u.wallDistance
    THEN WallTerm(u, pos[2] - u.wallDistance, <<0, Q>>, vel)
  ELSE IF pos[2] < -u.wallDistance
    THEN WallTerm(u, -u.wallDistance - pos[2], <<0, -Q>>, vel)
  ELSE <<0, 0>>

wallForce(u, pos, vel) ==
  LET fx == IF pos[1] > u.wallDistance
              THEN WallTerm(u, pos[1] - u.wallDistance, <<Q, 0>>, vel)
            ELSE IF pos[1] < -u.wallDistance
              THEN WallTerm(u, -u.wallDistance - pos[1], <<-Q, 0>>, vel)
            ELSE <<0, 0>>
      fy == IF pos[2] > u.wallDistance
              THEN WallTerm(u, pos[2] - u.wallDistance, <<0, Q>>, vel)
            ELSE IF pos[2] < -u.wallDistance
              THEN WallTerm(u, -u.wallDistance - pos[2], <<0, -Q>>, vel)
            ELSE <<0, 0>>
  IN VAdd(fx, fy)

\* variant: the neighbour index is clamped to the ring's ends, no wrap-around
nIdxClamped(idx, off, I_N) ==
  IF idx + off < 0 THEN 0 ELSE IF idx + off > I_N - 1 THEN I_N - 1 ELSE idx + off

\* int nIdx = (idx + off + I_N) % I_N
nIdx(idx, off, I_N) == (idx + off + I_N) % I_N

\* the spring between the particle (texel a) and a neighbour (texel nTex)
SpringBetween(u, a, nTex, body, I_N) ==
  LET pb == XY(nTex)
      vb == ZW(nTex)
      pa == XY(a)
      va == ZW(a)
      ab == VSub(pb, pa)
      d == Length(ab)
      dir == IF d > 0 THEN <<Div(ab[1], d), Div(ab[2], d)>> ELSE <<0, 0>>
      Fs == MulK(u.kSpring, d - restLen(u.radiusArr, body, I_N))
      vRel == Dot(dir, VSub(vb, va))
      Fd == MulK(u.kDampSpring, vRel)
  IN VScale(dir, Fs + Fd)

\* one structural spring of particle idx towards neighbour idx + off
SpringForce(u, tex, body, idx, off, I_N) ==
  SpringBetween(u, tex[body][idx], tex[body][nIdx(idx, off, I_N)], body, I_N)

\* shoelace sum over the ring, in Q*Q units
RECURSIVE ShoelaceRaw(_, _, _, _)
ShoelaceRaw(tex, body, i, I_N) ==
  IF i = I_N THEN 0
  ELSE LET p0 == tex[body][i]
           p1 == tex[body][(i + 1) % I_N]
       IN (p0[1] * p1[2] - p1[1] * p0[2]) + ShoelaceRaw(tex, body, i + 1, I_N)

PolyArea(tex, body, I_N) == RDiv(Abs(ShoelaceRaw(tex, body, 0, I_N)), 2 * Q)

\* press = kPressure * (areaRest(body) - area) / areaRest(body)
Pressure(u, tex, body, I_N) ==
  LET area == PolyArea(tex, body, I_N)
      aR == areaRest(u.radiusArr, body)
  IN Div(MulK(u.kPressure, aR - area), aR)

\* indices of the two particles the pressure normal is taken from
prevIdx(idx, I_N) == (idx + I_N - 1) % I_N

nextIdx(idx, I_N) == (idx + 1) % I_N

\* normalize(vec2(edge.y, -edge.x) + 1e-4), taken at ten times the grid
PressureNormal(prev, next) ==
  LET edge == VSub(next, prev)
  IN Normalize(<<10 * edge[2] + 1, -10 * edge[1] + 1>>)

\* press * nrm / F_N
PressureAlong(nrm, press, I_N) ==
  LET pn == VScale(nrm, press)
  IN <<RDiv(pn[1], I_N), RDiv(pn[2], I_N)>>

PressureForce(u, tex, body, idx, I_N) ==
  PressureAlong(PressureNormal(XY(tex[body][prevIdx(idx, I_N)]),
                               XY(tex[body][nextIdx(idx, I_N)])),
                Pressure(u, tex, body, I_N), I_N)

ShapeGoal(sm, q) ==
  LET trans == XY(sm)
      rot == ZW(sm)
  IN VAdd(<<Mul(rot[1], q[1]) - Mul(rot[2], q[2]),
            Mul(rot[2], q[1]) + Mul(rot[1], q[2])>>, trans)

\* variant: the body test is dropped, every body is pulled while one is dragged
DragForceEveryBody(u, sm, body) ==
  IF u.dragBody # -1
    THEN <<MulK(u.kDrag, u.dragPos[1] - sm[1]), MulK(u.kDrag, u.dragPos[2] - sm[2])>>
    ELSE <<0, 0>>

\* variant: the pull on the dragged body is scaled by pushStrength
DragForcePush(u, sm, body) ==
  IF body = u.dragBody
    THEN <<MulK(u.pushStrength, MulK(u.kDrag, u.dragPos[1] - sm[1])),
           MulK(u.pushStrength, MulK(u.kDrag, u.dragPos[2] - sm[2]))>>
    ELSE <<0, 0>>

DragForce(u, sm, body) ==
  IF body = u.dragBody
    THEN <<MulK(u.kDrag, u.dragPos[1] - sm[1]), MulK(u.kDrag, u.dragPos[2] - sm[2])>>
    ELSE <<0, 0>>

\* even-odd ray cast of nextPos against the ring of otherBody: number of
\* edges i..I_N-1 crossed to the right of nextPos
RECURSIVE CrossCount(_, _, _, _, _)
CrossCount(tex, otherBody, nextPos, i, I_N) ==
  IF i = I_N THEN 0
  ELSE LET a == XY(tex[otherBody][i])
           b == XY(tex[otherBody][(i + 1) % I_N])
           hit == /\ (a[2] > nextPos[2]) # (b[2] > nextPos[2])
                  \* t = (nextPos.y - a.y) / (b.y - a.y); xCross = mix(a.x, b.x, t)
                  /\ nextPos[1] < a[1] + RDiv((b[1] - a[1]) * (nextPos[2] - a[2]), b[2] - a[2])
       IN (IF hit THEN 1 ELSE 0) + CrossCount(tex, otherBody, nextPos, i + 1, I_N)

\* variant: no ray cast, a point within the bounding box counts as inside
InsideBBoxOnly(tex, otherBody, nextPos, I_N) == TRUE

InsidePolygon(tex, otherBody, nextPos, I_N) ==
  CrossCount(tex, otherBody, nextPos, 0, I_N) % 2 = 1

\* clamp(dot(ap, ab) / (dot(ab, ab) + 1e-6), 0.0, 1.0), Q-scaled; 1e-6 is one
\* unit of the unrounded Q*Q product
ClampedT(ap, ab) ==
  LET num == DotRaw(ap, ab)
      den == DotRaw(ab, ab) + 1
  IN IF num <= 0 THEN 0
     ELSE IF num >= den THEN Q
     ELSE FracDiv(num, den)

EdgeProjection(tex, otherBody, nextPos, i, I_N) ==
  LET a == XY(tex[otherBody][i])
      b == XY(tex[otherBody][(i + 1) % I_N])
      ab == VSub(b, a)
      ap == VSub(nextPos, a)
      t == ClampedT(ap, ab)
  IN VAdd(a, VScale(ab, t))

\* the closest-point loop: state is [minDist, newPos]
RECURSIVE ClosestLoop(_, _, _, _, _, _, _)
ClosestLoop(tex, otherBody, nextPos, i, I_N, minDist, newPos) ==
  IF i = I_N THEN newPos
  ELSE LET proj == EdgeProjection(tex, otherBody, nextPos, i, I_N)
           d == Length(VSub(nextPos, proj))
       IN IF d < minDist
            THEN ClosestLoop(tex, otherBody, nextPos, i + 1, I_N, d, proj)
            ELSE ClosestLoop(tex, otherBody, nextPos, i + 1, I_N, minDist, newPos)

\* variant: the correction is blended in at half weight
ClosestPointHalf(tex, otherBody, nextPos, I_N) ==
  LET c == ClosestLoop(tex, otherBody, nextPos, 0, I_N, 1000000 * Q, nextPos)
  IN <<RDiv(nextPos[1] + c[1], 2), RDiv(nextPos[2] + c[2], 2)>>

ClosestPoint(tex, otherBody, nextPos, I_N) ==
  ClosestLoop(tex, otherBody, nextPos, 0, I_N, 1000000 * Q, nextPos)

OutsideBBox(bbox, nextPos) ==
  \/ nextPos[1] < bbox[1]
  \/ nextPos[1] > bbox[3]
  \/ nextPos[2] < bbox[2]
  \/ nextPos[2] > bbox[4]

\* variant: the particle bounces back instead of stopping
HitVelocityReflect(vel) == <<-vel[1], -vel[2]>>

\* velocity of a particle found inside another body
HitVelocity(vel) == <<0, 0>>

\* variant: the particle's own body is tested like any other
RECURSIVE CollisionLoopWithSelf(_, _, _, _, _, _)
CollisionLoopWithSelf(tex, bboxTex, body, ob, I_N, st) ==
  IF ob = BODY_COUNT THEN st
  ELSE IF OutsideBBox(bboxTex[ob], st.nextPos)
    THEN CollisionLoopWithSelf(tex, bboxTex, body, ob + 1, I_N, st)
  ELSE IF InsidePolygon(tex, ob, st.nextPos, I_N)
    THEN CollisionLoopWithSelf(tex, bboxTex, body, ob + 1, I_N,
           [nextPos |-> ClosestPoint(tex, ob, st.nextPos, I_N),
            vel |-> HitVelocity(st.vel),
            tested |-> st.tested \cup {ob},
            inside |-> st.inside \cup {ob}])
  ELSE CollisionLoopWithSelf(tex, bboxTex, body, ob + 1, I_N,
         [st EXCEPT !.tested = @ \cup {ob}])

\* the collision loop over otherBody = ob .. B_N-1; st carries nextPos, vel
\* and, for the properties, the bodies tested and the bodies found inside
RECURSIVE CollisionLoop(_, _, _, _, _, _)
CollisionLoop(tex, bboxTex, body, ob, I_N, st) ==
  IF ob = BODY_COUNT THEN st
  ELSE IF ob = body THEN CollisionLoop(tex, bboxTex, body, ob + 1, I_N, st)
  ELSE IF OutsideBBox(bboxTex[ob], st.nextPos)
    THEN CollisionLoop(tex, bboxTex, body, ob + 1, I_N, st)
  ELSE IF InsidePolygon(tex, ob, st.nextPos, I_N)
    THEN CollisionLoop(tex, bboxTex, body, ob + 1, I_N,
           [nextPos |-> ClosestPoint(tex, ob, st.nextPos, I_N),
            vel |-> HitVelocity(st.vel),
            tested |-> st.tested \cup {ob},
            inside |-> st.inside \cup {ob}])
  ELSE CollisionLoop(tex, bboxTex, body, ob + 1, I_N,
         [st EXCEPT !.tested = @ \cup {ob}])

\* main() of the position shader for fragment (idx, body), first half:
\* force accumulation and semi-implicit Euler integration up to the
\* predicted position
\* f += kShape * (goal - pos)
ShapeForce(u, goal, pos) ==
  <<MulK(u.kShape, goal[1] - pos[1]), MulK(u.kShape, goal[2] - pos[2])>>

\* the force sum f of the fragment, fDrag being its drag term
Forces(u, tex, shapeTex, restTex, body, idx, I_N, fDrag) ==
  VAdd(VAdd(VAdd(VAdd(VAdd(
    VAdd(SpringForce(u, tex, body, idx, -1, I_N), SpringForce(u, tex, body, idx, 1, I_N)),
    PressureForce(u, tex, body, idx, I_N)),
    u.gravity),
    wallForce(u, XY(tex[body][idx]), ZW(tex[body][idx]))),
    ShapeForce(u, ShapeGoal(shapeTex[body], XY(restTex[body][idx])), XY(tex[body][idx]))),
    fDrag)

\* vel += f * dt; vel *= exp(-damping * dt)
DampedVelocity(u, vel, f) == VScale(VAdd(vel, VScale(f, u.dt)), ExpNeg(u.damping, u.dt))

\* nextPos = pos + vel * dt, with the values the properties look at
Predicted(u, pos, vel, f, fDrag) ==
  [fDrag |-> fDrag, f |-> f, velInt |-> vel, pred |-> VAdd(pos, VScale(vel, u.dt))]

\* variant: explicit Euler, the position advanced with the velocity read
EulerExplicit(u, p, f, fDrag) ==
  [Predicted(u, XY(p), DampedVelocity(u, ZW(p), f), f, fDrag)
     EXCEPT !.pred = VAdd(XY(p), VScale(ZW(p), u.dt))]

\* vel += f * dt; vel *= exp(...); nextPos = pos + vel * dt
Euler(u, p, f, fDrag) == Predicted(u, XY(p), DampedVelocity(u, ZW(p), f), f, fDrag)

IntegrateWith(u, tex, shapeTex, restTex, body, idx, I_N, fDrag) ==
  Euler(u, tex[body][idx], Forces(u, tex, shapeTex, restTex, body, idx, I_N, fDrag), fDrag)

Integrate(u, tex, shapeTex, restTex, body, idx, I_N) ==
  IntegrateWith(u, tex, shapeTex, restTex, body, idx, I_N, DragForce(u, shapeTex[body], body))

\* largest coordinate and speed the fixed-point grid carries; a frame that
\* predicts a state outside this range is not followed further
PosRange == 4 * Q

VelRange == 40 * Q

InRange(pos, vel) ==
  /\ Abs(pos[1]) <= PosRange /\ Abs(pos[2]) <= PosRange
  /\ Abs(vel[1]) <= VelRange /\ Abs(vel[2]) <= VelRange

\* the collision loop's state before the first body
Unresolved(g) == [nextPos |-> g.pred, vel |-> g.velInt, tested |-> {}, inside |-> {}]

\* gl_FragColor = vec4(pos, vel), with the intermediate values of the run
FragOut(g, st) ==
  [color |-> Vec4(st.nextPos, st.vel),
   fDrag |-> g.fDrag, f |-> g.f, pred |-> g.pred, velInt |-> g.velInt,
   tested |-> st.tested, inside |-> st.inside]

\* second half of main(): collision check and correction of the predicted
\* state g.  (Off the grid the collision loop is not evaluated; Tick
\* discards such frames.)
Resolve(tex, bboxTex, body, I_N, g) ==
  FragOut(g, IF InRange(g.pred, g.velInt)
               THEN CollisionLoop(tex, bboxTex, body, 0, I_N, Unresolved(g))
               ELSE Unresolved(g))

\* main() of the position shader, whole
PositionShader(u, tex, shapeTex, bboxTex, restTex, body, idx, I_N) ==
  Resolve(tex, bboxTex, body, I_N, Integrate(u, tex, shapeTex, restTex, body, idx, I_N))

\* ------------------------------------------------------------------------
\* Shape-matching shader and bounding-box shader (one value per body row)
\* ------------------------------------------------------------------------
RECURSIVE SumPos(_, _, _, _)
SumPos(tex, body, i, I_N) ==
  IF i = I_N THEN <<0, 0>>
  ELSE VAdd(XY(tex[body][i]), SumPos(tex, body, i + 1, I_N))

Centroid(tex, body, I_N) ==
  LET s == SumPos(tex, body, 0, I_N)
  IN <<RDiv(s[1], I_N), RDiv(s[2], I_N)>>

\* sums of p.q (dot) and p.y*q.x - p.x*q.y (cross) in Q*Q units
RECURSIVE CovRaw(_, _, _, _, _, _)
CovRaw(tex, restTex, body, C, i, I_N) ==
  IF i = I_N THEN <<0, 0>>
  ELSE LET p == VSub(XY(tex[body][i]), C)
           q == XY(restTex[body][i])
       IN VAdd(<<p[1] * q[1] + p[2] * q[2], p[2] * q[1] - p[1] * q[2]>>,
               CovRaw(tex, restTex, body, C, i + 1, I_N))

\* x / max(len, 1e-6): len is a grid value, so len < 1e-6 means len = 0
DivFloored(x, len) == IF len > 0 THEN Div(x, len) ELSE x * 1000000

\* variant: the cross term taken with the opposite sign (mirrored rotation)
shapeShaderMirrored(tex, restTex, body, I_N) ==
  LET C == Centroid(tex, body, I_N)
      raw == CovRaw(tex, restTex, body, C, 0, I_N)
      A == RDiv(raw[1], Q)
      B == -RDiv(raw[2], Q)
      len == Length(<<A, B>>)
  IN <<C[1], C[2], DivFloored(A, len), DivFloored(B, len)>>

shapeShader(tex, restTex, body, I_N) ==
  LET C == Centroid(tex, body, I_N)
      raw == CovRaw(tex, restTex, body, C, 0, I_N)
      A == RDiv(raw[1], Q)
      B == RDiv(raw[2], Q)
      len == Length(<<A, B>>)
  IN <<C[1], C[2], DivFloored(A, len), DivFloored(B, len)>>

RECURSIVE BBoxLoop(_, _, _, _, _)
BBoxLoop(tex, body, i, I_N, acc) ==
  IF i = I_N THEN acc
  ELSE LET p == XY(tex[body][i])
       IN BBoxLoop(tex, body, i + 1, I_N,
            <<Min2(acc[1], p[1]), Min2(acc[2], p[2]),
              Max2(acc[3], p[1]), Max2(acc[4], p[2])>>)

bboxShader(tex, body, I_N) ==
  BBoxLoop(tex, body, 0, I_N,
    <<1000000 * Q, 1000000 * Q, -1000000 * Q, -1000000 * Q>>)

\* ------------------------------------------------------------------------
\* State
\* ------------------------------------------------------------------------
VARIABLES
  cfg,                  \* the control panel's current values (useSoftBodyConfig)
  gpuN,                 \* I_N: the numPoints the shaders were compiled with
  restTex,              \* rest offsets, [body][idx] -> vec4
  texturePos,           \* render targets of posVar,   [0..1][body][idx] -> vec4
  shapeMatchTex,        \* render targets of shapeVar, [0..1][body] -> vec4
  bboxTex,              \* render targets of bboxVar,  [0..1][body] -> vec4
  currentTextureIndex,  \* gpu.currentTextureIndex
  uniforms,             \* posVar.material.uniforms
  drag,                 \* drag.current: active, pos, target
  centers,              \* React state of useSimulationState
  aabbs,                \* React state of the debug boxes
  frag,                 \* intermediate values of the last position pass
  lastOp,               \* the handler that ran last
  released,             \* since the last pointer-down that selected a body: "no"
                        \* up yet, an up that let a "body" go, or only "idle" ups
  ticks                 \* number of frames run

vars == <<cfg, gpuN, restTex, texturePos, shapeMatchTex, bboxTex,
          currentTextureIndex, uniforms, drag, centers, aabbs, frag, lastOp,
          released, ticks>>

\* drag.current.target before the first pointer event (the ref is created
\* without the field)
Undefined == -2

\* ------------------------------------------------------------------------
\* Bounds and inputs
\* ------------------------------------------------------------------------
MaxTicks == 3

\* frame times handed to useFrame, Q-scaled seconds
DtSet == {100}

\* canvas size and the pointer positions (clientX, clientY) of the events
size == [width |-> 200, height |-> 200]

ClientPts == {<<100, 100>>, <<120, 90>>}

\* values the control panel can be set to
SoftCfg ==
  [DefaultCfg EXCEPT !.kShape = 0, !.pressureK = 2000, !.kSpring = 1000, !.damping = 100,
                     !.wallK = 1000, !.wallDamp = 50, !.wallDistance = 100,
                     !.gravityY = 0, !.kDampSpring = 20]

CfgSet == {DefaultCfg, SoftCfg}

\* a change of numPoints, and the panel values of the runs with rebuilds
MoreCfg == [DefaultCfg EXCEPT !.numPoints = PointsDefault + 1]

RebuildCfgSet == {DefaultCfg, MoreCfg}

\* ------------------------------------------------------------------------
\* Construction (useGPUComputation, useSimulationState, drag ref)
\* ------------------------------------------------------------------------
SeedPos(n) ==
  [row \in Bodies |->
     LET restPos == generateRestPositions(BODIES[row].radius, n)
         c == BODIES[row].center
     IN [i \in 0..(n - 1) |-> <<restPos[i][1] + c[1], restPos[i][2] + c[2], 0, 0>>]]

SeedRest(n) ==
  [row \in Bodies |->
     LET restPos == generateRestPositions(BODIES[row].radius, n)
     IN [i \in 0..(n - 1) |-> <<restPos[i][1], restPos[i][2], 0, 0>>]]

SeedShape == [row \in Bodies |-> <<BODIES[row].center[1], BODIES[row].center[2], Q, 0>>]

SeedBBox == [row \in Bodies |-> <<0, 0, 0, 0>>]

\* new THREE.Vector2(0, cfg.gravityY), Q-scaled (gravityY is in tenths)
GravityOf(c) == <<0, c.gravityY * (Q \div 10)>>

InitUniforms(c) ==
  [dt |-> 0,
   kSpring |-> c.kSpring,
   kDampSpring |-> c.kDampSpring,
   damping |-> c.damping,
   kPressure |-> c.pressureK,
   gravity |-> GravityOf(c),
   wallK |-> c.wallK,
   wallDamp |-> c.wallDamp,
   wallDistance |-> c.wallDistance,
   kShape |-> c.kShape,
   dragPos |-> <<0, 0>>,
   kDrag |-> 0,
   radiusArr |-> [b \in Bodies |-> BODIES[b].radius],
   pushStrength |-> c.pushStrength,
   dragBody |-> -1]

NoFrag(n) ==
  [b \in Bodies |-> [i \in 0..(n - 1) |->
     [color |-> <<0, 0, 0, 0>>, fDrag |-> <<0, 0>>, f |-> <<0, 0>>, pred |-> <<0, 0>>,
      velInt |-> <<0, 0>>, tested |-> {}, inside |-> {}]]]

Init ==
  /\ cfg = DefaultCfg
  /\ gpuN = DefaultCfg.numPoints
  /\ restTex = SeedRest(DefaultCfg.numPoints)
  /\ texturePos = [k \in 0..1 |-> SeedPos(DefaultCfg.numPoints)]
  /\ shapeMatchTex = [k \in 0..1 |-> SeedShape]
  /\ bboxTex = [k \in 0..1 |-> SeedBBox]
  /\ currentTextureIndex = 0
  /\ uniforms = InitUniforms(DefaultCfg)
  /\ drag = [active |-> FALSE, pos |-> <<0, 0>>, target |-> Undefined]
  /\ centers = [b \in Bodies |-> <<0, 0>>]
  /\ aabbs = [b \in Bodies |-> <<0, 0, 0, 0>>]
  /\ frag = NoFrag(DefaultCfg.numPoints)
  /\ lastOp = "init"
  /\ released = "no"
  /\ ticks = 0

\* ------------------------------------------------------------------------
\* Frame callback (useSimulationUpdate) with gpu.compute()
\* ------------------------------------------------------------------------
\* variant: the drag stiffness follows the active flag alone
FrameUniformsActiveOnly(u, c, d, dt) ==
  [u EXCEPT
     !.kDrag = IF d.active THEN 200 ELSE 0,
     !.dt = dt,
     !.kPressure = c.pressureK,
     !.kShape = c.kShape,
     !.kSpring = c.kSpring,
     !.damping = c.damping,
     !.wallK = c.wallK,
     !.wallDamp = c.wallDamp,
     !.wallDistance = c.wallDistance,
     !.pushStrength = c.pushStrength,
     !.dragBody = IF d.target = Undefined THEN -1 ELSE d.target]

\* uniforms as the frame callback leaves them before gpu.compute()
FrameUniforms(u, c, d, dt) ==
  [u EXCEPT
     !.kDrag = IF d.active /\ d.target # -1 THEN 200 ELSE 0,
     !.dt = dt,
     !.kPressure = c.pressureK,
     !.kShape = c.kShape,
     !.kSpring = c.kSpring,
     !.damping = c.damping,
     !.wallK = c.wallK,
     !.wallDamp = c.wallDamp,
     !.wallDistance = c.wallDistance,
     !.pushStrength = c.pushStrength,
     !.dragBody = IF d.target = Undefined THEN -1 ELSE d.target]

\* variant: one buffer updated in place, fragment after fragment, so that a
\* fragment reads the new state of the fragments before it
RECURSIVE InPlaceFrom(_, _, _, _, _, _, _, _)
InPlaceFrom(u, tex, shapeTex, bbTex, rest, n, k, acc) ==
  IF k = BODY_COUNT * n THEN acc
  ELSE LET b == k \div n
           i == k % n
           r == PositionShader(u, tex, shapeTex, bbTex, rest, b, i, n)
       IN InPlaceFrom(u, [tex EXCEPT ![b][i] = r.color], shapeTex, bbTex, rest, n, k + 1,
                      [acc EXCEPT ![b][i] = r])

PositionPassInPlace(u, tex, shapeTex, bbTex, rest, n) ==
  InPlaceFrom(u, tex, shapeTex, bbTex, rest, n, 0,
    [b \in Bodies |-> [i \in 0..(n - 1) |->
       [color |-> <<0, 0, 0, 0>>, fDrag |-> <<0, 0>>, f |-> <<0, 0>>, pred |-> <<0, 0>>,
        velInt |-> <<0, 0>>, tested |-> {}, inside |-> {}]]])

\* the position pass over all fragments, reading the given targets
PositionPass(u, tex, shapeTex, bbTex, rest, n) ==
  [b \in Bodies |-> [i \in 0..(n - 1) |->
     PositionShader(u, tex, shapeTex, bbTex, rest, b, i, n)]]

\* targets the position pass of gpu.compute() samples for its dependencies
PosPassShapeInput(shapeRT, cur) == shapeRT[cur]

PosPassBBoxInput(bboxRT, cur) == bboxRT[cur]

\* the position pass run fragment by fragment over one read-only input
RunPositionPass(u, posRT, shapeRT, bboxRT, rest, cur, n) ==
  PositionPass(u, posRT[cur], PosPassShapeInput(shapeRT, cur),
               PosPassBBoxInput(bboxRT, cur), rest, n)

Tick(dt) ==
  /\ ticks < MaxTicks
  /\ LET cur == currentTextureIndex
         nxt == 1 - currentTextureIndex
         u == FrameUniforms(uniforms, cfg, drag, dt)
     IN /\ uniforms' = u
        /\ frag' = RunPositionPass(u, texturePos, shapeMatchTex, bboxTex, restTex, cur, gpuN)
        /\ \A b \in Bodies : \A i \in 0..(gpuN - 1) :
             InRange(frag'[b][i].pred, frag'[b][i].velInt)
        /\ texturePos' = [texturePos EXCEPT ![nxt] =
             [b \in Bodies |-> [i \in 0..(gpuN - 1) |-> frag'[b][i].color]]]
        /\ shapeMatchTex' = [shapeMatchTex EXCEPT ![nxt] =
             [b \in Bodies |-> shapeShader(texturePos[cur], restTex, b, gpuN)]]
        /\ bboxTex' = [bboxTex EXCEPT ![nxt] =
             [b \in Bodies |-> bboxShader(texturePos[cur], b, gpuN)]]
        /\ currentTextureIndex' = nxt
        \* readback of the now current targets
        /\ aabbs' = bboxTex'[nxt]
        /\ centers' = [b \in Bodies |-> XY(shapeMatchTex'[nxt][b])]
  /\ ticks' = ticks + 1
  /\ lastOp' = "tick"
  /\ UNCHANGED <<cfg, gpuN, restTex, drag, released>>

\* ------------------------------------------------------------------------
\* Drag controller (pointer handlers of SoftBody)
\* ------------------------------------------------------------------------
toSimSpace(x, y) ==
  LET s2 == Min2(size.width, size.height)
  IN <<RDiv((2 * x - size.width) * Q, s2), -RDiv((2 * y - size.height) * Q, s2)>>

\* variant: the nearest qualifying body is chosen
PickClosest(row, mouseSim, cs) ==
  LET hits == {b \in row..(BODY_COUNT - 1) :
                 (mouseSim[1] - cs[b][1]) * (mouseSim[1] - cs[b][1])
                 + (mouseSim[2] - cs[b][2]) * (mouseSim[2] - cs[b][2])
                   < BODIES[b].radius * BODIES[b].radius}
      d2(b) == (mouseSim[1] - cs[b][1]) * (mouseSim[1] - cs[b][1])
               + (mouseSim[2] - cs[b][2]) * (mouseSim[2] - cs[b][2])
  IN IF hits = {} THEN -1
     ELSE CHOOSE b \in hits : \A c \in hits : d2(b) < d2(c) \/ (d2(b) = d2(c) /\ b <= c)

\* the selection loop of onPointerDown from body row on
RECURSIVE PickFrom(_, _, _)
PickFrom(row, mouseSim, cs) ==
  IF row = BODY_COUNT THEN -1
  ELSE LET c == cs[row]
           r == BODIES[row].radius
           dist2 == (mouseSim[1] - c[1]) * (mouseSim[1] - c[1])
                    + (mouseSim[2] - c[2]) * (mouseSim[2] - c[2])
       IN IF dist2 < r * r THEN row ELSE PickFrom(row + 1, mouseSim, cs)

onPointerDown(e) ==
  LET mouseSim == toSimSpace(e[1], e[2])
  IN /\ drag' = [active |-> TRUE, pos |-> mouseSim, target |-> PickFrom(0, mouseSim, centers)]
     /\ lastOp' = "down"
     /\ released' = IF PickFrom(0, mouseSim, centers) \in Bodies THEN "no" ELSE released
     /\ UNCHANGED <<cfg, gpuN, restTex, texturePos, shapeMatchTex, bboxTex,
                    currentTextureIndex, uniforms, centers, aabbs, frag, ticks>>

\* variant: a move picks the body under the pointer again
onPointerMoveRepick(e) ==
  /\ drag' = IF ~drag.active THEN drag
             ELSE [drag EXCEPT !.pos = toSimSpace(e[1], e[2]),
                               !.target = PickFrom(0, toSimSpace(e[1], e[2]), centers)]
  /\ lastOp' = "move"
  /\ UNCHANGED <<released, cfg, gpuN, restTex, texturePos, shapeMatchTex, bboxTex,
                 currentTextureIndex, uniforms, centers, aabbs, frag, ticks>>

onPointerMove(e) ==
  /\ drag' = IF ~drag.active THEN drag
             ELSE [drag EXCEPT !.pos = toSimSpace(e[1], e[2])]
  /\ lastOp' = "move"
  /\ UNCHANGED <<released, cfg, gpuN, restTex, texturePos, shapeMatchTex, bboxTex,
                 currentTextureIndex, uniforms, centers, aabbs, frag, ticks>>

\* variant: the up handler ends the drag by the active flag and keeps the target
onPointerUpKeepsTarget ==
  /\ drag' = [drag EXCEPT !.active = FALSE]
  /\ lastOp' = "up"
  /\ released' = IF drag.target \in Bodies \/ released = "body" THEN "body" ELSE "idle"
  /\ UNCHANGED <<cfg, gpuN, restTex, texturePos, shapeMatchTex, bboxTex,
                 currentTextureIndex, uniforms, centers, aabbs, frag, ticks>>

onPointerUp ==
  /\ drag' = [drag EXCEPT !.target = -1]
  /\ lastOp' = "up"
  /\ released' = IF drag.target \in Bodies \/ released = "body" THEN "body" ELSE "idle"
  /\ UNCHANGED <<cfg, gpuN, restTex, texturePos, shapeMatchTex, bboxTex,
                 currentTextureIndex, uniforms, centers, aabbs, frag, ticks>>

\* ------------------------------------------------------------------------
\* Control panel
\* ------------------------------------------------------------------------
\* variant: a change of numPoints leaves the simulation as it is
SetCfgKeepsBodies(c) ==
  /\ c # cfg
  /\ cfg' = c
  /\ lastOp' = "cfg"
  /\ UNCHANGED <<released, gpuN, restTex, texturePos, shapeMatchTex, bboxTex,
                 currentTextureIndex, uniforms, drag, centers, aabbs, frag, ticks>>

\* a change of the controls re-renders the component; useMemo builds the GPU
\* computation anew when cfg.numPoints differs from the one it was built with
SetCfg(c) ==
  /\ c # cfg
  /\ cfg' = c
  /\ lastOp' = "cfg"
  /\ IF c.numPoints # cfg.numPoints
       THEN /\ gpuN' = c.numPoints
            /\ restTex' = SeedRest(c.numPoints)
            /\ texturePos' = [k \in 0..1 |-> SeedPos(c.numPoints)]
            /\ shapeMatchTex' = [k \in 0..1 |-> SeedShape]
            /\ bboxTex' = [k \in 0..1 |-> SeedBBox]
            /\ currentTextureIndex' = 0
            /\ uniforms' = InitUniforms(c)
            /\ frag' = NoFrag(c.numPoints)
       ELSE UNCHANGED <<gpuN, restTex, texturePos, shapeMatchTex, bboxTex,
                        currentTextureIndex, uniforms, frag>>
  /\ UNCHANGED <<released, drag, centers, aabbs, ticks>>

Next ==
  \/ \E dt \in DtSet : Tick(dt)
  \/ \E e \in ClientPts : onPointerDown(e)
  \/ \E e \in ClientPts : onPointerMove(e)
  \/ onPointerUp
  \/ \E c \in CfgSet : SetCfg(c)

Spec == Init /\ [][Next]_vars

\* runs in which the point count is changed between frames
RebuildNext ==
  \/ \E dt \in DtSet : Tick(dt)
  \/ \E e \in ClientPts : onPointerDown(e)
  \/ \E c \in RebuildCfgSet : SetCfg(c)

RebuildSpec == Init /\ [][RebuildNext]_vars

\* ------------------------------------------------------------------------
\* The shaders on chosen inputs: construction with other panel values and
\* particle buffers that hold other values than the seed
\* ------------------------------------------------------------------------
\* gravity off, everything else as in the panel's initial values
ZeroGCfg == [DefaultCfg EXCEPT !.gravityY = 0]

\* every stiffness and damping coefficient zero, gravity (0, -1), walls at 1
FreeFallCfg ==
  [DefaultCfg EXCEPT !.kShape = 0, !.pressureK = 0, !.kSpring = 0, !.damping = 0,
                     !.wallK = 0, !.wallDamp = 0, !.gravityY = -10,
                     !.wallDistance = 1000, !.kDampSpring = 0]

\* structural springs alone
SpringCfg ==
  [DefaultCfg EXCEPT !.kShape = 0, !.pressureK = 0, !.damping = 0, !.gravityY = 0,
                     !.kDampSpring = 0]

\* a ring of two points
TwoCfg == [DefaultCfg EXCEPT !.numPoints = 2]

ProbeCfgSet == {DefaultCfg, ZeroGCfg, FreeFallCfg, SpringCfg, TwoCfg}

ProbeDtSet == {10, 100}

\* radial displacements of one particle
ProbeShift == {20, 100}

\* the seed with particle i of body b moved outward along its rest offset by d
Displaced(n, b, i, d) ==
  [SeedPos(n) EXCEPT ![b][i] =
     <<@[1] + Mul(d, CosTab(n)[i + 1]), @[2] + Mul(d, SinTab(n)[i + 1]), 0, 0>>]

\* the seed with every particle of body b at the body's centre
Collapsed(n, b) ==
  [SeedPos(n) EXCEPT ![b] =
     [i \in 0..(n - 1) |-> <<BODIES[b].center[1], BODIES[b].center[2], 0, 0>>]]

\* the seed with every particle moving at velocity v
Moving(n, v) ==
  [row \in Bodies |-> [i \in 0..(n - 1) |->
     <<SeedPos(n)[row][i][1], SeedPos(n)[row][i][2], v[1], v[2]>>]]

\* v turned by k quarter turns counter-clockwise
Rot90(v, k) ==
  CASE k % 4 = 0 -> v
    [] k % 4 = 1 -> <<-v[2], v[1]>>
    [] k % 4 = 2 -> <<-v[1], -v[2]>>
    [] k % 4 = 3 -> <<v[2], -v[1]>>

\* every body's rest shape turned by k quarter turns about its centre and
\* moved by T, at rest
Rotated(n, k, T) ==
  [row \in Bodies |-> [i \in 0..(n - 1) |->
     Vec4(VAdd(VAdd(Rot90(XY(SeedRest(n)[row][i]), k), BODIES[row].center), T), <<0, 0>>)]]

ProbeTurns == {<<1, <<0, 0>>>>, <<2, <<30, -20>>>>, <<3, <<-10, 40>>>>}

\* the seed with every ring stored in the opposite order (clockwise)
Reversed(n) ==
  [row \in Bodies |-> [i \in 0..(n - 1) |-> SeedPos(n)[row][(n - i) % n]]]

\* every body's rest shape at twice its size about its centre, at rest
Inflated(n) ==
  [row \in Bodies |-> [i \in 0..(n - 1) |->
     Vec4(VAdd(VScale(XY(SeedRest(n)[row][i]), 2 * Q), BODIES[row].center), <<0, 0>>)]]

ProbeTexSet(n) ==
  {SeedPos(n), Moving(n, <<50, 30>>), Reversed(n), Inflated(n)}
    \cup {Rotated(n, kt[1], kt[2]) : kt \in ProbeTurns}
    \cup {Displaced(n, b, i, d) : b \in Bodies, i \in {0, n - 1}, d \in ProbeShift}
    \cup {Collapsed(n, b) : b \in Bodies}

\* useGPUComputation(c) with the particle texture holding t
Construct(c, t) ==
  /\ cfg = c
  /\ gpuN = c.numPoints
  /\ restTex = SeedRest(c.numPoints)
  /\ texturePos = [k \in 0..1 |-> t]
  /\ shapeMatchTex = [k \in 0..1 |-> SeedShape]
  /\ bboxTex = [k \in 0..1 |-> SeedBBox]
  /\ currentTextureIndex = 0
  /\ uniforms = InitUniforms(c)
  /\ drag = [active |-> FALSE, pos |-> <<0, 0>>, target |-> Undefined]
  /\ centers = [b \in Bodies |-> <<0, 0>>]
  /\ aabbs = [b \in Bodies |-> <<0, 0, 0, 0>>]
  /\ frag = NoFrag(c.numPoints)
  /\ lastOp = "init"
  /\ released = "no"
  /\ ticks = 0

ShaderInit == \E c \in ProbeCfgSet : \E t \in ProbeTexSet(c.numPoints) : Construct(c, t)

ShaderNext == \E dt \in ProbeDtSet : Tick(dt)

ShaderSpec == ShaderInit /\ [][ShaderNext]_vars

\* ------------------------------------------------------------------------
\* Properties
\* ------------------------------------------------------------------------
Idx == 0..(gpuN - 1)

\* after a frame: the targets the frame read and the ones it published
ReadIndex == 1 - currentTextureIndex

ReadPos == texturePos[ReadIndex]

ReadShape == shapeMatchTex[ReadIndex]

ReadBBox == bboxTex[ReadIndex]

NewPos == texturePos[currentTextureIndex]

\* C1: in every frame the pose and the bounding box the position pass reads
\* are the ones the estimator and the bounding-box shader produce from the
\* very particle buffer the position pass reads in that frame.
C1_PoseAndBBoxOfSameBuffer ==
  (lastOp = "tick" /\ ticks >= 2) =>
    \A b \in Bodies :
      /\ ReadShape[b] = shapeShader(ReadPos, restTex, b, gpuN)
      /\ ReadBBox[b] = bboxShader(ReadPos, b, gpuN)

\* C2: double buffering.  Every particle of the published buffer is the
\* position shader's result on the previous buffer alone, the published pose
\* and box are computed from that same previous buffer, and the previous
\* buffer is left as it was read.
C2_DoubleBuffer ==
  lastOp = "tick" =>
    /\ \A b \in Bodies : \A i \in Idx :
         NewPos[b][i] =
           PositionShader(uniforms, ReadPos, ReadShape, ReadBBox, restTex, b, i, gpuN).color
    /\ \A b \in Bodies :
         /\ shapeMatchTex[currentTextureIndex][b] = shapeShader(ReadPos, restTex, b, gpuN)
         /\ bboxTex[currentTextureIndex][b] = bboxShader(ReadPos, b, gpuN)

C2_Witness ==
  /\ lastOp = "tick"
  /\ ticks >= 2
  /\ \E b \in Bodies : \E i \in Idx :
       /\ NewPos[b][i] # ReadPos[b][i]
       /\ NewPos[b][(i + 1) % gpuN] # ReadPos[b][(i + 1) % gpuN]

\* the drag pull towards point target of the body whose pose is sm
PullTowards(k10, target, sm) ==
  <<MulK(k10, target[1] - sm[1]), MulK(k10, target[2] - sm[2])>>

\* C3: for the body that is the active drag target, the drag term of a frame
\* is kDrag * (dragPos - centroid) with dragPos the pointer position last
\* stored in drag.current by pointer-down or pointer-move.
C3_DragTowardsStoredPointer ==
  (lastOp = "tick" /\ drag.active /\ drag.target \in Bodies) =>
    \A i \in Idx :
      frag[drag.target][i].fDrag = PullTowards(uniforms.kDrag, drag.pos, ReadShape[drag.target])

\* squared distance of two points, in Q*Q units
Dist2(m, c) == (m[1] - c[1]) * (m[1] - c[1]) + (m[2] - c[2]) * (m[2] - c[2])

\* bodies whose stored centre is nearer to point m than their rest radius
Hit(m, cs) ==
  {b \in Bodies : Dist2(m, cs[b]) < BODIES[b].radius * BODIES[b].radius}

\* C4: pointer-down makes the lowest-index body whose centre is strictly
\* nearer to the pointer than its rest radius the active target, and -1 when
\* there is none; the first match wins whatever the distances.
C4_FirstMatchWins ==
  lastOp = "down" =>
    /\ drag.active
    /\ drag.target = IF Hit(drag.pos, centers) = {} THEN -1
                     ELSE CHOOSE b \in Hit(drag.pos, centers) :
                            \A c \in Hit(drag.pos, centers) : b <= c

\* several bodies qualify and one of them is nearer than the one chosen
C4_Witness ==
  /\ lastOp = "down"
  /\ drag.target \in Bodies
  /\ \E c \in Hit(drag.pos, centers) :
       /\ c > drag.target
       /\ Dist2(drag.pos, centers[c]) < Dist2(drag.pos, centers[drag.target])

\* C5: after a pointer-up and until the next pointer-down that selects a body
\* no body is the drag target, whatever pointer-moves, frames and panel
\* changes come in between, and a frame run in that time uses no drag
\* stiffness and adds no drag term to any particle.
C5_UpClearsTarget ==
  released # "no" =>
    /\ drag.target = -1
    /\ lastOp = "tick" =>
         /\ uniforms.kDrag = 0
         /\ uniforms.dragBody = -1
         /\ \A b \in Bodies : \A i \in Idx : frag[b][i].fDrag = <<0, 0>>

C5_Witness ==
  /\ released = "body"
  /\ lastOp = "tick"
  /\ drag.active
  /\ drag.pos # <<0, 0>>

\* C6: a pointer-move while a body is the active target changes the stored
\* drag position and nothing else: active flag, target, particle buffers,
\* poses, boxes, stored centres and uniforms are as before.
C6_MoveChangesOnlyPos ==
  [][(lastOp' = "move" /\ drag.active /\ drag.target \in Bodies) =>
       /\ drag'.active = drag.active
       /\ drag'.target = drag.target
       /\ drag'.pos \in {toSimSpace(e[1], e[2]) : e \in ClientPts}
       /\ UNCHANGED <<texturePos, shapeMatchTex, bboxTex, currentTextureIndex,
                      restTex, uniforms, centers, aabbs, cfg>>]_vars

C6_Witness ==
  /\ lastOp = "move"
  /\ drag.active
  /\ drag.target \in Bodies
  /\ ticks >= 1

\* C7: in every frame only the particles of the active drag target get a
\* drag term, and it is one and the same vector for all of them,
\* kDrag * (dragPos - centre of the body's pose) with the pass's uniforms;
\* every other particle, and every particle when there is no target, gets
\* none.
C7_DragUniformOnTarget ==
  lastOp = "tick" =>
    \A b \in Bodies : \A i \in Idx :
      frag[b][i].fDrag =
        IF drag.active /\ b = drag.target
          THEN PullTowards(200, uniforms.dragPos, ReadShape[b])
          ELSE <<0, 0>>

C7_Witness ==
  /\ lastOp = "tick"
  /\ ticks >= 2
  /\ drag.target \in Bodies
  /\ \A i \in Idx : frag[drag.target][i].fDrag # <<0, 0>>
  /\ \E i \in Idx : XY(ReadPos[drag.target][i]) # XY(ReadPos[drag.target][0])

\* distance from p to the nearest edge of the ring of body ob
RECURSIVE MinEdgeDist(_, _, _, _, _)
MinEdgeDist(tex, ob, p, i, n) ==
  IF i = n THEN 1000000 * Q
  ELSE Min2(Length(VSub(p, EdgeProjection(tex, ob, p, i, n))),
            MinEdgeDist(tex, ob, p, i + 1, n))

\* a point this near to an edge counts as lying on it (coincident-edge tie)
TieTol == Q \div 200

\* C8: after the collision resolver has run for a particle, the even-odd
\* test of its final position against every polygon it was found inside of
\* in that frame is negative, unless the position lies on an edge of that
\* polygon; also when it was snapped to more than one body.
C8_OutsideAfterResolve ==
  lastOp = "tick" =>
    \A b \in Bodies : \A i \in Idx : \A ob \in frag[b][i].inside :
      \/ ~InsidePolygon(ReadPos, ob, XY(NewPos[b][i]), gpuN)
      \/ MinEdgeDist(ReadPos, ob, XY(NewPos[b][i]), 0, gpuN) <= TieTol

\* C9: a particle found inside another body is written with velocity (0,0),
\* and the particles of the struck body are not touched by that: a particle
\* of a struck body that is itself found in no body is written with its own
\* predicted position and integrated velocity.
C9_InelasticOneSided ==
  lastOp = "tick" =>
    \A b \in Bodies : \A i \in Idx :
      /\ frag[b][i].inside # {} => ZW(NewPos[b][i]) = <<0, 0>>
      /\ \A ob \in frag[b][i].inside : \A j \in Idx :
           frag[ob][j].inside = {} =>
             NewPos[ob][j] = Vec4(frag[ob][j].pred, frag[ob][j].velInt)

C9_Witness ==
  /\ lastOp = "tick"
  /\ \E b \in Bodies : \E i \in Idx : \E ob \in frag[b][i].inside :
       /\ frag[b][i].velInt # <<0, 0>>
       /\ ZW(NewPos[b][i]) = <<0, 0>>
       /\ \E j \in Idx : frag[ob][j].inside = {} /\ frag[ob][j].velInt # <<0, 0>>

\* a bounding box that holds every point: the collision loop skips nothing
EveryWhere == [b \in Bodies |-> <<-1000000 * Q, -1000000 * Q, 1000000 * Q, 1000000 * Q>>]

\* C10: the bounding boxes only save work: a frame writes the same particle
\* buffer as the frame run with the early skip removed.
C10_SkipChangesNothing ==
  lastOp = "tick" =>
    \A b \in Bodies : \A i \in Idx :
      NewPos[b][i] =
        PositionShader(uniforms, ReadPos, ReadShape, EveryWhere, restTex, b, i, gpuN).color

\* C11: every global parameter the position pass uses in a frame has the
\* value the control panel holds when the frame is run: spring stiffness,
\* spring damping, velocity damping, pressure, gravity, wall stiffness, wall
\* damping, wall distance and shape stiffness.
C11_ParamsFollowCfg ==
  lastOp = "tick" =>
    /\ uniforms.kSpring = cfg.kSpring
    /\ uniforms.kDampSpring = cfg.kDampSpring
    /\ uniforms.damping = cfg.damping
    /\ uniforms.kPressure = cfg.pressureK
    /\ uniforms.gravity = GravityOf(cfg)
    /\ uniforms.wallK = cfg.wallK
    /\ uniforms.wallDamp = cfg.wallDamp
    /\ uniforms.wallDistance = cfg.wallDistance
    /\ uniforms.kShape = cfg.kShape

\* C12: a change of the point count replaces the whole body set: whatever
\* came before, both targets of the particle buffer then hold, for every body
\* b and index i, the rest offset (r_b cos(2 pi i / N), r_b sin(2 pi i / N))
\* plus the initial centre of b with velocity (0,0), N being the new count.
C12_RebuildReseeds ==
  [][cfg'.numPoints # cfg.numPoints =>
       /\ gpuN' = cfg'.numPoints
       /\ DOMAIN texturePos'[currentTextureIndex'][0] = 0..(cfg'.numPoints - 1)
       /\ \A k \in 0..1 : \A b \in Bodies : \A i \in 0..(cfg'.numPoints - 1) :
            texturePos'[k][b][i] =
              <<Mul(BODIES[b].radius, CosTab(cfg'.numPoints)[i + 1]) + BODIES[b].center[1],
                Mul(BODIES[b].radius, SinTab(cfg'.numPoints)[i + 1]) + BODIES[b].center[2],
                0, 0>>]_vars

\* a rebuild after frames and a drag have changed the particles
C12_Witness ==
  /\ lastOp = "cfg"
  /\ gpuN = PointsDefault + 1
  /\ ticks >= 2
  /\ drag.target \in Bodies
  /\ centers # [b \in Bodies |-> <<0, 0>>]
  /\ texturePos[currentTextureIndex] = SeedPos(gpuN)

UnitTol == (Q * Q) \div 10

RECURSIVE ReversePass(_, _, _, _, _, _, _, _)
ReversePass(u, tex, shapeTex, bbTex, rest, n, k, acc) ==
  IF k < 0 THEN acc
  ELSE ReversePass(u, tex, shapeTex, bbTex, rest, n, k - 1,
         [acc EXCEPT ![k \div n][k % n] =
            PositionShader(u, tex, shapeTex, bbTex, rest, k \div n, k % n, n).color])

ForceTol == Q \div 10

\* C16: equilibrium.  In a frame that reads a buffer in which every body
\* sits on its rest shape (rest offsets plus centre, upright pose) with zero
\* velocities, with zero gravity, no drag and no wall in reach, the net force
\* on every particle is zero up to the tolerance.
C16_RestIsEquilibrium ==
  (/\ lastOp = "tick"
   /\ gpuN >= 3
   /\ ReadPos = SeedPos(gpuN)
   /\ ReadShape = SeedShape
   /\ uniforms.gravity = <<0, 0>>
   /\ uniforms.kDrag = 0
   /\ \A b \in Bodies : \A i \in Idx :
        wallForce(uniforms, XY(ReadPos[b][i]), ZW(ReadPos[b][i])) = <<0, 0>>)
  => \A b \in Bodies : \A i \in Idx : Length(frag[b][i].f) <= ForceTol

\* sum of the two structural springs of particle i of body b in the frame
SpringSum(b, i) ==
  VAdd(SpringForce(uniforms, ReadPos, b, i, -1, gpuN),
       SpringForce(uniforms, ReadPos, b, i, 1, gpuN))

\* in the buffer read, particle i of body b lies outward of its rest place
\* along its rest offset, the other particles of the body are on their rest
\* places and nothing moves
OutwardOnly(b, i) ==
  LET d == VSub(XY(ReadPos[b][i]), XY(SeedPos(gpuN)[b][i]))
      q == XY(restTex[b][i])
  IN /\ \A j \in Idx : ZW(ReadPos[b][j]) = <<0, 0>>
     /\ \A j \in Idx \ {i} : ReadPos[b][j] = SeedPos(gpuN)[b][j]
     /\ DotRaw(d, q) > 0
     /\ d[1] * q[2] - d[2] * q[1] = 0

NoCoefficients ==
  /\ uniforms.kSpring = 0 /\ uniforms.kDampSpring = 0 /\ uniforms.kPressure = 0
  /\ uniforms.kShape = 0 /\ uniforms.kDrag = 0 /\ uniforms.damping = 0
  /\ uniforms.wallK = 0 /\ uniforms.wallDamp = 0

\* C17: integration is semi-implicit Euler.  In every frame the velocity is
\* the velocity read plus f * dt, then multiplied by exp(-damping * dt), and
\* the predicted position is the position read plus that new velocity times
\* dt.  With every stiffness and damping coefficient zero and no collision,
\* the particle is written with velocity v_old + g * dt, g the gravity of
\* the controls.
C17_SemiImplicitEuler ==
  lastOp = "tick" =>
    \A b \in Bodies : \A i \in Idx :
      LET p == ReadPos[b][i]
          v == VScale(VAdd(ZW(p), VScale(frag[b][i].f, uniforms.dt)),
                      ExpNeg(uniforms.damping, uniforms.dt))
      IN /\ frag[b][i].velInt = v
         /\ frag[b][i].pred = VAdd(XY(p), VScale(v, uniforms.dt))
         /\ (NoCoefficients /\ frag[b][i].inside = {}) =>
              /\ ZW(NewPos[b][i]) = VAdd(ZW(p), VScale(GravityOf(cfg), uniforms.dt))
              /\ XY(NewPos[b][i]) = VAdd(XY(p), VScale(ZW(NewPos[b][i]), uniforms.dt))

\* a frame of dt = 0.1 under gravity (0, -1) alone, from rest: every particle
\* leaves with velocity (0, -0.1) and has moved down by 0.01
C17_Witness ==
  /\ lastOp = "tick" /\ NoCoefficients /\ uniforms.dt = 100
  /\ GravityOf(cfg) = <<0, -Q>>
  /\ ReadPos = SeedPos(gpuN)
  /\ \A b \in Bodies : \A i \in Idx :
       /\ frag[b][i].inside = {}
       /\ ZW(NewPos[b][i]) = <<0, -100>>
       /\ XY(NewPos[b][i]) = VAdd(XY(ReadPos[b][i]), <<0, -10>>)

\* the predicted position of particle i of body b is inside no other body's
\* polygon of the buffer read (even-odd rule)
InNoOtherBody(b, i) ==
  \A ob \in Bodies \ {b} : CrossCount(ReadPos, ob, frag[b][i].pred, 0, gpuN) % 2 = 0

\* C18: a particle whose predicted position is inside no other body's
\* polygon is not corrected: it is written at its predicted position with
\* its damped integrated velocity.  In particular, when this is so for every
\* particle the frame makes no correction at all.
C18_NoHitNoCorrection ==
  lastOp = "tick" =>
    \A b \in Bodies : \A i \in Idx :
      InNoOtherBody(b, i) =>
        /\ XY(NewPos[b][i]) = frag[b][i].pred
        /\ ZW(NewPos[b][i]) = frag[b][i].velInt

\* a frame without any particle inside another body, in which a moving
\* particle lies within another body's bounding box and is tested
C18_Witness ==
  /\ lastOp = "tick"
  /\ \A b \in Bodies : \A i \in Idx : InNoOtherBody(b, i)
  /\ \E b \in Bodies : \E i \in Idx :
       /\ frag[b][i].tested # {}
       /\ frag[b][i].velInt # <<0, 0>>
       /\ NewPos[b][i] = Vec4(frag[b][i].pred, frag[b][i].velInt)

\* the ring neighbours of local index i, written out
Before(i) == IF i = 0 THEN gpuN - 1 ELSE i - 1

After(i) == IF i = gpuN - 1 THEN 0 ELSE i + 1

\* C20: ring adjacency is cyclic.  For every local index i the two
\* neighbours of the springs and of the pressure normal are i - 1 and i + 1
\* taken around the ring (0 next to N - 1), both in 0..N-1, and the spring
\* and pressure forces of a frame are those of the particle with these two
\* particles of its own body.
C20_CyclicNeighbours ==
  lastOp = "tick" =>
    \A b \in Bodies : \A i \in Idx :
      /\ nIdx(i, -1, gpuN) = Before(i) /\ nIdx(i, 1, gpuN) = After(i)
      /\ prevIdx(i, gpuN) = Before(i) /\ nextIdx(i, gpuN) = After(i)
      /\ Before(i) \in Idx /\ After(i) \in Idx
      /\ SpringSum(b, i) =
           VAdd(SpringBetween(uniforms, ReadPos[b][i], ReadPos[b][Before(i)], b, gpuN),
                SpringBetween(uniforms, ReadPos[b][i], ReadPos[b][After(i)], b, gpuN))
      /\ PressureForce(uniforms, ReadPos, b, i, gpuN) =
           PressureAlong(PressureNormal(XY(ReadPos[b][Before(i)]), XY(ReadPos[b][After(i)])),
                         Pressure(uniforms, ReadPos, b, gpuN), gpuN)

\* a frame on a ring of at least three particles in which the spring across
\* the wrap-around (particle 0 with particle N - 1) carries a force
C20_Witness ==
  /\ lastOp = "tick" /\ gpuN >= 3
  /\ \E b \in Bodies :
       /\ nIdx(0, -1, gpuN) = gpuN - 1 /\ nIdx(gpuN - 1, 1, gpuN) = 0
       /\ SpringForce(uniforms, ReadPos, b, 0, -1, gpuN) # <<0, 0>>
       /\ SpringForce(uniforms, ReadPos, b, 0, -1, gpuN) =
            SpringBetween(uniforms, ReadPos[b][0], ReadPos[b][gpuN - 1], b, gpuN)
       /\ SpringForce(uniforms, ReadPos, b, gpuN - 1, 1, gpuN) # <<0, 0>>

\* cos and sin of k quarter turns
QuarterCos(k) == <<Q, 0, -Q, 0>>[(k % 4) + 1]

QuarterSin(k) == <<0, Q, 0, -Q>>[(k % 4) + 1]

\* the translation C for which particle 0 of body b in the buffer read is
\* its rest offset turned by k quarter turns plus C
ShiftOf(b, k) == VSub(XY(ReadPos[b][0]), Rot90(XY(restTex[b][0]), k))

\* body b in the buffer read is exactly its rest shape turned by k quarter
\* turns and translated
IsTurned(b, k) ==
  \A i \in Idx : XY(ReadPos[b][i]) = VAdd(Rot90(XY(restTex[b][i]), k), ShiftOf(b, k))

\* the pose the frame's shape pass published: the estimate for the buffer read
NewShape == shapeMatchTex[currentTextureIndex]

SnapTol == (3 * Q) \div 1000

\* number of sample points per edge, less one
EdgeSamples == 8

\* the body struck last by particle i of body b (bodies are visited in
\* index order) and the position the particle had when that body was tested
LastStruck(b, i) == CHOOSE ob \in frag[b][i].inside : \A o \in frag[b][i].inside : o <= ob

SnapSource(b, i) ==
  IF frag[b][i].inside = {LastStruck(b, i)} THEN frag[b][i].pred
  ELSE ClosestPoint(ReadPos, CHOOSE ob \in frag[b][i].inside : ob # LastStruck(b, i),
                    frag[b][i].pred, gpuN)

\* p lies on the segment from a to b2, up to the rounding allowance
OnSegment(p, a, b2) ==
  LET ab == VSub(b2, a)
      ap == VSub(p, a)
  IN /\ Abs(ap[1] * ab[2] - ap[2] * ab[1]) <= SnapTol * (Length(ab) + 1)
     /\ DotRaw(ap, ab) >= -SnapTol * (Length(ab) + 1)
     /\ DotRaw(ap, ab) <= DotRaw(ab, ab) + SnapTol * (Length(ab) + 1)

\* the point at k / EdgeSamples of the way along edge j of body ob
EdgePoint(ob, j, k) ==
  LET a == XY(ReadPos[ob][j])
      b2 == XY(ReadPos[ob][(j + 1) % gpuN])
  IN <<a[1] + RDiv((b2[1] - a[1]) * k, EdgeSamples), a[2] + RDiv((b2[2] - a[2]) * k, EdgeSamples)>>

\* C22: a particle found inside another body is written at the closest of
\* the clamped projections of its position onto the edges of that body's
\* ring in the buffer read, at full weight: the written position lies on an
\* edge segment of that ring, and no point of any edge of the ring is
\* closer to the position that was tested.
C22_SnapToClosestEdge ==
  lastOp = "tick" =>
    \A b \in Bodies : \A i \in Idx :
      frag[b][i].inside # {} =>
        /\ \E j \in Idx :
             OnSegment(XY(NewPos[b][i]), XY(ReadPos[LastStruck(b, i)][j]),
                       XY(ReadPos[LastStruck(b, i)][(j + 1) % gpuN]))
        /\ \A j \in Idx : \A k \in 0..EdgeSamples :
             Length(VSub(SnapSource(b, i), EdgePoint(LastStruck(b, i), j, k)))
               >= Length(VSub(SnapSource(b, i), XY(NewPos[b][i]))) - SnapTol

\* a particle predicted inside one other body and moved by the correction
\* to a point that is none of the ring's vertices
C22_Witness ==
  /\ lastOp = "tick"
  /\ \E b \in Bodies : \E i \in Idx :
       /\ Cardinality(frag[b][i].inside) = 1
       /\ Length(VSub(frag[b][i].pred, XY(NewPos[b][i]))) > 2 * SnapTol
       /\ \A j \in Idx : XY(NewPos[b][i]) # XY(ReadPos[LastStruck(b, i)][j])
       /\ \E j \in Idx :
            OnSegment(XY(NewPos[b][i]), XY(ReadPos[LastStruck(b, i)][j]),
                      XY(ReadPos[LastStruck(b, i)][(j + 1) % gpuN]))

\* the bodies particle i of body b was found inside of before body ob was
\* visited, and the particle's position when ob was visited
StruckBefore(b, i, ob) == {o \in frag[b][i].inside : o < ob}

PosWhenVisited(b, i, ob) ==
  IF StruckBefore(b, i, ob) = {} THEN frag[b][i].pred
  ELSE ClosestPoint(ReadPos, CHOOSE o \in StruckBefore(b, i, ob) : TRUE, frag[b][i].pred, gpuN)

\* C23: the collision test of a particle of body b is never run against b
\* itself; every other body is visited (ray-cast, unless the particle is
\* outside the bounding box read for it); and the ray cast uses the other
\* body's ring of the buffer the frame read (the previous tick's), not the
\* positions written in this frame.
C23_OthersOnlyPreviousBuffer ==
  lastOp = "tick" =>
    \A b \in Bodies : \A i \in Idx :
      /\ b \notin frag[b][i].tested
      /\ frag[b][i].inside \subseteq frag[b][i].tested
      /\ frag[b][i].tested \subseteq Bodies
      /\ \A ob \in Bodies \ {b} :
           \/ ob \in frag[b][i].tested
           \/ OutsideBBox(ReadBBox[ob], PosWhenVisited(b, i, ob))
      /\ \A ob \in frag[b][i].tested :
           ob \in frag[b][i].inside
             <=> CrossCount(ReadPos, ob, PosWhenVisited(b, i, ob), 0, gpuN) % 2 = 1

\* a particle within its own body's bounding box of the buffer read and
\* found inside another body's ring of the buffer read, a ring that no
\* longer contains the tested position in the buffer the frame wrote
C23_Witness ==
  /\ lastOp = "tick"
  /\ \E b \in Bodies : \E i \in Idx : \E ob \in frag[b][i].inside :
       /\ ~OutsideBBox(ReadBBox[b], frag[b][i].pred)
       /\ CrossCount(ReadPos, ob, PosWhenVisited(b, i, ob), 0, gpuN) % 2 = 1
       /\ CrossCount(NewPos, ob, PosWhenVisited(b, i, ob), 0, gpuN) % 2 = 0

\* the wall force of the frame on particle i of body b: wallForce on the
\* position and velocity read
FrameWall(b, i) == wallForce(uniforms, XY(ReadPos[b][i]), ZW(ReadPos[b][i]))

\* the correction along one axis for coordinate c and velocity component v
AxisCorrection(c, v) ==
  IF c > uniforms.wallDistance
    THEN -MulK(uniforms.wallK, c - uniforms.wallDistance) - MulK(uniforms.wallDamp, v)
  ELSE IF c < -uniforms.wallDistance
    THEN MulK(uniforms.wallK, -uniforms.wallDistance - c) - MulK(uniforms.wallDamp, v)
  ELSE 0

\* C24: wall repulsion is evaluated per axis on the position read.  The
\* force sum of a frame contains, next to the other terms, a wall force
\* whose x component is the x correction (zero unless |x| > wallDistance)
\* and whose y component is the y correction (zero unless |y| >
\* wallDistance): both for a particle beyond an x and a y bound, (0,0)
\* within the domain; at zero velocity each correction points back into
\* the domain.
C24_WallsPerAxis ==
  lastOp = "tick" =>
    \A b \in Bodies : \A i \in Idx :
      LET x == ReadPos[b][i][1]
          y == ReadPos[b][i][2]
          W == FrameWall(b, i)
          D == uniforms.wallDistance
      IN /\ W = <<AxisCorrection(x, ReadPos[b][i][3]), AxisCorrection(y, ReadPos[b][i][4])>>
         /\ W[1] # 0 => Abs(x) > D
         /\ W[2] # 0 => Abs(y) > D
         /\ (Abs(x) <= D /\ Abs(y) <= D) => W = <<0, 0>>
         /\ (ZW(ReadPos[b][i]) = <<0, 0>> /\ uniforms.wallK >= 10) =>
              /\ x > D => W[1] < 0
              /\ x < -D => W[1] > 0
              /\ y > D => W[2] < 0
              /\ y < -D => W[2] > 0
         /\ frag[b][i].f =
              VAdd(VAdd(VAdd(VAdd(VAdd(SpringSum(b, i),
                PressureForce(uniforms, ReadPos, b, i, gpuN)),
                uniforms.gravity),
                W),
                ShapeForce(uniforms, ShapeGoal(ReadShape[b], XY(restTex[b][i])),
                           XY(ReadPos[b][i]))),
                frag[b][i].fDrag)

\* a frame with a particle at rest beyond an x and a y bound that gets
\* both corrections, and a particle within the domain
C24_Witness ==
  /\ lastOp = "tick" /\ uniforms.wallK >= 10
  /\ \E b \in Bodies : \E i \in Idx :
       /\ ZW(ReadPos[b][i]) = <<0, 0>>
       /\ Abs(ReadPos[b][i][1]) > uniforms.wallDistance
       /\ Abs(ReadPos[b][i][2]) > uniforms.wallDistance
       /\ FrameWall(b, i)[1] # 0 /\ FrameWall(b, i)[2] # 0
  /\ \E b \in Bodies : \E i \in Idx :
       /\ Abs(ReadPos[b][i][1]) <= uniforms.wallDistance
       /\ Abs(ReadPos[b][i][2]) <= uniforms.wallDistance
       /\ FrameWall(b, i) = <<0, 0>>

\* a particle buffer with every ring in the opposite index order
Unwound(tex) == [b \in Bodies |-> [i \in Idx |-> tex[b][(gpuN - i) % gpuN]]]

\* cross product of the edges into and out of particle i of body b
TurnAt(b, i) ==
  LET p0 == XY(ReadPos[b][Before(i)])
      p1 == XY(ReadPos[b][i])
      p2 == XY(ReadPos[b][After(i)])
  IN (p1[1] - p0[1]) * (p2[2] - p1[2]) - (p1[2] - p0[2]) * (p2[1] - p1[1])

\* body b of the buffer read is a convex polygon, of either winding
IsConvex(b) ==
  /\ gpuN >= 3
  /\ \/ \A i \in Idx : TurnAt(b, i) > 0
     \/ \A i \in Idx : TurnAt(b, i) < 0

\* component of the frame's pressure force on particle i of body b along
\* the direction from the body's centroid to the particle (raw product)
PressureOutward(b, i) ==
  DotRaw(PressureForce(uniforms, ReadPos, b, i, gpuN),
         VSub(XY(ReadPos[b][i]), Centroid(ReadPos, b, gpuN)))

C26_IdleMoveChangesNothing ==
  [][(lastOp' = "move" /\ drag.target \notin Bodies) => drag' = drag]_vars

\* C27: the centroid of every body held for drag-picking and rendering is
\* the mean of the body's particle positions in the particle buffer that is
\* currently published, before the first frame and after every frame.
C27_CentersOfPublishedBuffer ==
  lastOp \in {"init", "tick"} =>
    \A b \in Bodies : centers[b] = Centroid(NewPos, b, gpuN)

\* drag states in which body b is not the target: no pointer event yet, a
\* pointer-down that matched no body, and another body held at another place
OtherDrags(b) ==
  {[active |-> FALSE, pos |-> <<0, 0>>, target |-> Undefined],
   [active |-> TRUE, pos |-> <<200, 100>>, target |-> -1]}
    \cup {[active |-> TRUE, pos |-> p, target |-> o] :
            p \in {<<0, 0>>, <<200, 100>>}, o \in Bodies \ {b}}

\* the texel the frame's position shader writes for particle i of body b
\* when the drag state is d and everything else is as in the frame
TexelUnderDrag(d, b, i) ==
  PositionShader(FrameUniforms(uniforms, cfg, d, uniforms.dt), ReadPos, ReadShape,
                 ReadBBox, restTex, b, i, gpuN).color

\* C28: the new state of a body that is not the drag target does not
\* depend on the drag state.  For every body other than the frame's target,
\* the frame run with any other drag state in which that body is not the
\* target (flag off, pointer elsewhere, another body or none as target)
\* writes the same positions and velocities for its particles.
C28_BystandersIgnoreDrag ==
  lastOp = "tick" =>
    \A b \in Bodies :
      drag.target # b =>
        \A d \in OtherDrags(b) : \A i \in Idx : TexelUnderDrag(d, b, i) = NewPos[b][i]

\* a frame in which a body is dragged and moves differently than it would
\* without the drag, next to a body that is not the target
C28_Witness ==
  /\ lastOp = "tick"
  /\ drag.target \in Bodies /\ uniforms.kDrag > 0
  /\ \E i \in Idx :
       TexelUnderDrag([active |-> FALSE, pos |-> <<0, 0>>, target |-> Undefined],
                      drag.target, i) # NewPos[drag.target][i]
  /\ \E b \in Bodies \ {drag.target} : \A i \in Idx :
       TexelUnderDrag([active |-> FALSE, pos |-> <<0, 0>>, target |-> Undefined], b, i)
         = NewPos[b][i]

\* other values of the pushStrength control, in tenths
PushProbe == {0, 50, 200}

\* the frame's uniforms had the control pushStrength been p
UniformsWithPush(p) ==
  FrameUniforms([uniforms EXCEPT !.pushStrength = p], [cfg EXCEPT !.pushStrength = p],
                drag, uniforms.dt)

\* C29: pushStrength has no effect.  The frame run with any other value of
\* pushStrength, everything else the same, gives the same position pass
\* (forces, predictions, corrections, texels), and the poses and boxes are
\* computed from the particle buffer alone; so two runs that differ only in
\* pushStrength have the same buffers, poses and boxes after every frame.
C29_PushStrengthUnused ==
  lastOp = "tick" =>
    /\ \A p \in PushProbe :
         /\ UniformsWithPush(p) = [uniforms EXCEPT !.pushStrength = p]
         /\ PositionPass(UniformsWithPush(p), ReadPos, ReadShape, ReadBBox, restTex, gpuN) = frag
    /\ \A b \in Bodies :
         /\ \A i \in Idx : NewPos[b][i] = frag[b][i].color
         /\ shapeMatchTex[currentTextureIndex][b] = shapeShader(ReadPos, restTex, b, gpuN)
         /\ bboxTex[currentTextureIndex][b] = bboxShader(ReadPos, b, gpuN)

\* a frame with a body dragged, a particle stopped inside another body and
\* the pushStrength uniform at a value the other runs do not have
C29_Witness ==
  /\ lastOp = "tick"
  /\ uniforms.pushStrength \notin PushProbe /\ uniforms.pushStrength = cfg.pushStrength
  /\ drag.target \in Bodies /\ uniforms.kDrag > 0
  /\ \E i \in Idx : frag[drag.target][i].fDrag # <<0, 0>>
  /\ \E b \in Bodies : \E i \in Idx : frag[b][i].inside # {}
  /\ PositionPass(UniformsWithPush(0), ReadPos, ReadShape, ReadBBox, restTex, gpuN) = frag

\* the bodies with a particle that got a drag term in the last frame
Pulled == {b \in Bodies : \E i \in Idx : frag[b][i].fDrag # <<0, 0>>}

\* C30: after any sequence of pointer events and frames the drag target the
\* position pass is given is -1 (none) or a body index in 0..BODY_COUNT-1,
\* the drag stiffness is non-zero only if it is a body index, and at most
\* one body, that target, gets a drag term.
C30_DragTargetValid ==
  /\ uniforms.dragBody \in {-1} \cup Bodies
  /\ uniforms.kDrag # 0 => uniforms.dragBody \in Bodies
  /\ lastOp = "tick" =>
       /\ uniforms.dragBody = (IF drag.target \in Bodies THEN drag.target ELSE -1)
       /\ Cardinality(Pulled) <= 1
       /\ Pulled \subseteq {uniforms.dragBody}

\* a frame after a pointer-down on a body and a pointer-up: the pass is
\* given no target and zero stiffness although the active flag is still on
C30_Witness ==
  /\ lastOp = "tick"
  /\ drag.active /\ drag.target = -1 /\ released = "body"
  /\ uniforms.dragBody = -1 /\ uniforms.kDrag = 0
  /\ Pulled = {}

====
